---- MODULE Spec2Model ----
(***************************************************************************)
(* Model of bolero-generator/src/num.rs (integer generators, the bounded   *)
(* value algorithm, NonZero refinement types) and of the engine boundary   *)
(* of bolero-engine/src/lib.rs (driver mode, run, shrink).                 *)
(***************************************************************************)
EXTENDS Integers, Sequences, FiniteSets, TLC

VARIABLES
    build,      \* compilation target: overflow checks on/off, byte order
    pc,         \* position of the scenario being executed
    args,       \* arguments of the pending bounded / generate call
    ret,        \* what the last completed call computed
    rng1,       \* driver of the first run
    rng2,       \* driver of the second run (replay of the same bytes)
    trace1,     \* values decoded by the first run, in call order
    trace2,     \* values decoded by the second run, in call order
    engine      \* engine state: mode, captured entropy, shrink bookkeeping

vars == <<build, pc, args, ret, rng1, rng2, trace1, trace2, engine>>

----------------------------------------------------------------------------
(* Bounds of the model *)

\* how far around MIN, 0 and MAX the sampled integers reach
Edge == 1
\* longest entropy buffer handed to a driver
MaxLen == 3
\* longest entropy sequence captured by the engine
MaxEntropy == 4
\* longest sequence of generator calls replayed through a driver
MaxCalls == 2

----------------------------------------------------------------------------
(* Primitive integer types: core::$ty::MIN, core::$ty::MAX and the          *)
(* arithmetic the generated code performs on them.                         *)

Pow2(n) == IF n = 8 THEN 256 ELSE IF n = 16 THEN 65536 ELSE 0

u8 == [signed |-> FALSE, bits |-> 8]
i8 == [signed |-> TRUE, bits |-> 8]
u16 == [signed |-> FALSE, bits |-> 16]
i16 == [signed |-> TRUE, bits |-> 16]
u32 == [signed |-> FALSE, bits |-> 32]

IntTypes == {u8, i8, u16, i16}

MIN(ty) == IF ty.signed THEN -(Pow2(ty.bits) \div 2) ELSE 0
MAX(ty) == IF ty.signed THEN (Pow2(ty.bits) \div 2) - 1 ELSE Pow2(ty.bits) - 1

InType(ty, n) == MIN(ty) <= n /\ n <= MAX(ty)

\* two's complement reduction of a mathematical integer to the type
Wrap(ty, n) ==
    LET m == n % Pow2(ty.bits)
    IN  IF ty.signed /\ m > MAX(ty) THEN m - Pow2(ty.bits) ELSE m

saturating_add(ty, v, d) == IF v + d > MAX(ty) THEN MAX(ty) ELSE v + d
saturating_sub(ty, v, d) == IF v - d < MIN(ty) THEN MIN(ty) ELSE v - d
wrapping_add(ty, v, d) == Wrap(ty, v + d)

Ok(v) == [kind |-> "value", v |-> v, msg |-> ""]
Panic(m) == [kind |-> "panic", v |-> 0, msg |-> m]

Abs(n) == IF n < 0 THEN -n ELSE n

\* `a - b` on the type: panics when overflow checks are compiled in,
\* wraps otherwise
Sub(ty, checks, a, b) ==
    IF InType(ty, a - b) THEN Ok(a - b)
    ELSE IF checks THEN Panic("attempt to subtract with overflow")
    ELSE Ok(Wrap(ty, a - b))

\* `a + b` on the type
Add(ty, checks, a, b) ==
    IF InType(ty, a + b) THEN Ok(a + b)
    ELSE IF checks THEN Panic("attempt to add with overflow")
    ELSE Ok(Wrap(ty, a + b))

\* `a % b` on the type: remainder truncated towards zero (sign of the
\* dividend); a zero divisor and MIN % -1 panic in every build
Rem(ty, a, b) ==
    IF b = 0
    THEN Panic("attempt to calculate the remainder with a divisor of zero")
    ELSE IF ty.signed /\ a = MIN(ty) /\ b = -1
    THEN Panic("attempt to calculate the remainder with overflow")
    ELSE LET m == Abs(a) % Abs(b) IN Ok(IF a < 0 THEN -m ELSE m)

----------------------------------------------------------------------------
(* core::ops::Bound *)

Included(v) == [kind |-> "Included", value |-> v]
Excluded(v) == [kind |-> "Excluded", value |-> v]
Unbounded == [kind |-> "Unbounded", value |-> 0]

\* `let start = match start { ... }`
ResolveStart(ty, start) ==
    CASE start.kind = "Included" -> start.value
      [] start.kind = "Excluded" -> saturating_add(ty, start.value, 1)
      [] OTHER -> MIN(ty)

\* `let end = match end { ... }`
ResolveEnd(ty, end) ==
    CASE end.kind = "Included" -> end.value
      [] end.kind = "Excluded" -> saturating_sub(ty, end.value, 1)
      [] OTHER -> MAX(ty)

\* Normalize without the swap: the pair is taken as given
NormalizeNoSwap(s, e) == [lower |-> s, upper |-> e]

\* `let (lower, upper) = if start < end { (start, end) } else { (end, start) }`
Normalize(s, e) ==
    IF s < e THEN [lower |-> s, upper |-> e] ELSE [lower |-> e, upper |-> s]

\* the modulus taken as the number of values of the interval, range + 1
ModulusInclusive(ty, checks, lower, upper) ==
    LET d == Sub(ty, checks, upper, lower)
    IN  IF d.kind = "panic" THEN d ELSE Ok(saturating_add(ty, d.v, 1))

\* the modulus of the fold: `let range = upper - lower;`
Modulus(ty, checks, lower, upper) == Sub(ty, checks, upper, lower)

\* `(self % range) + lower`
Fold(ty, checks, self, range, lower) ==
    LET r == Rem(ty, self, range)
    IN  IF r.kind = "panic" THEN r ELSE Add(ty, checks, r.v, lower)

\* BoundedValue::bounded for a primitive integer type.  Besides the outcome
\* the record keeps the interval and whether an arithmetic step left the
\* type's domain.
bounded(ty, checks, self, start, end) ==
    LET s == ResolveStart(ty, start)
        e == ResolveEnd(ty, end)
        n == Normalize(s, e)
        range == Modulus(ty, checks, n.lower, n.upper)
        out == IF range.kind = "panic" THEN range
               ELSE Fold(ty, checks, self, range.v, n.lower)
        rem == IF range.kind = "panic" THEN range ELSE Rem(ty, self, range.v)
    IN  [lower |-> n.lower, upper |-> n.upper, out |-> out,
         sub_overflow |-> ~InType(ty, n.upper - n.lower),
         add_overflow |-> rem.kind = "value" /\ ~InType(ty, rem.v + n.lower),
         attempts |-> 1]

----------------------------------------------------------------------------
(* NonZero refinement types *)

\* `for _ in 0..=3`
NonZeroAttempts == 4

\* panic!(concat!("could not satisfy bounded value for ", stringify!($ty)))
Diagnostic(ty) ==
    CASE ty = u8 -> "could not satisfy bounded value for NonZeroU8"
      [] ty = i8 -> "could not satisfy bounded value for NonZeroI8"
      [] ty = u16 -> "could not satisfy bounded value for NonZeroU16"
      [] OTHER -> "could not satisfy bounded value for NonZeroI16"

\* the retry loop of BoundedValue::bounded for core::num::$ty, entered at
\* attempt n with raw value `inner`; `tried` lists the raw values folded so far
RECURSIVE NonZeroLoop(_, _, _, _, _, _, _)
NonZeroLoop(ty, checks, inner, start, end, n, tried) ==
    LET b == bounded(ty, checks, inner, start, end)
    IN  IF n > NonZeroAttempts
        THEN [b EXCEPT !.out = Panic(Diagnostic(ty)), !.attempts = n - 1]
                @@ [tried |-> tried]
        ELSE IF b.out.kind = "panic" \/ b.out.v # 0
        THEN [b EXCEPT !.attempts = n] @@ [tried |-> Append(tried, inner)]
        ELSE NonZeroLoop(ty, checks, wrapping_add(ty, inner, 1), start, end,
                         n + 1, Append(tried, inner))

\* BoundedValue::bounded for core::num::$ty; self and the bound values are
\* the underlying non-zero integers (`value.get()`)
NonZero_bounded(ty, checks, self, start, end) ==
    NonZeroLoop(ty, checks, self, start, end, 1, <<>>)

----------------------------------------------------------------------------
(* Driver and byte source *)

Byte == 0..255

\* a driver over a captured byte sequence
ForcedDriver(bytes) ==
    [mode |-> "Forced", kind |-> "Exhaustible", buf |-> bytes, pos |-> 0]

\* a driver over an entropy generator
DirectDriver ==
    [mode |-> "Direct", kind |-> "Infinite", buf |-> <<>>, pos |-> 0]

\* Rng::fill_bytes(rng, &mut bytes): the next n bytes of the source; reads
\* past the end of a finite buffer are zero-filled, an infinite source hands
\* out the entropy `fresh`
fill_bytes(rng, n, fresh) ==
    [bytes |-> [i \in 1..n |->
                  IF rng.kind = "Infinite" THEN fresh
                  ELSE IF rng.pos + i <= Len(rng.buf) THEN rng.buf[rng.pos + i]
                  ELSE 0],
     rng |-> [rng EXCEPT !.pos = IF rng.kind = "Infinite" THEN @
                                  ELSE IF @ + n <= Len(rng.buf) THEN @ + n
                                  ELSE Len(rng.buf)]]

\* NativeEndian::read_uXX(&bytes) as an unsigned number
RECURSIVE ReadUint(_, _)
ReadUint(bytes, endian) ==
    IF bytes = <<>> THEN 0
    ELSE IF endian = "little"
    THEN Head(bytes) + 256 * ReadUint(Tail(bytes), endian)
    ELSE bytes[Len(bytes)] + 256 * ReadUint(SubSeq(bytes, 1, Len(bytes) - 1), endian)

\* `bytes[0] as $ty` and NativeEndian::read_iXX: reinterpretation of the
\* window as the target type
AsType(ty, n) == IF ty.signed THEN Wrap(ty, n) ELSE n

\* TypeGenerator::generate for a primitive integer type
TypeGenerator_generate(ty, endian, rng, fresh) ==
    LET f == fill_bytes(rng, ty.bits \div 8, fresh)
    IN  [value |-> AsType(ty, ReadUint(f.bytes, endian)), rng |-> f.rng]

\* a fixed-value generator that draws (and discards) a byte of the driver
ValueGeneratorConsuming(self, rng) ==
    [value |-> self, rng |-> fill_bytes(rng, 1, 0).rng]

\* ValueGenerator::generate for a primitive: `*self`, the driver untouched
ValueGenerator_generate(self, rng) == [value |-> self, rng |-> rng]

\* ValueGenerator::generate for the range `start..`
RangeFrom_generate(ty, bld, start, rng, fresh) ==
    LET g == TypeGenerator_generate(ty, bld.endian, rng, fresh)
    IN  [raw |-> g.value, rng |-> g.rng,
         b |-> bounded(ty, bld.overflow_checks, g.value, Included(start), Unbounded)]

\* what `unsafe { Self::new_unchecked(value) }` can do: a zero argument is
\* undefined behaviour, a build either wraps the zero or traps on it
new_unchecked(out) ==
    IF out.kind = "panic" \/ out.v # 0 THEN {out}
    ELSE {out, Panic("unsafe precondition(s) violated: new_unchecked")}

\* TypeGenerator::generate for core::num::$ty: the outcomes of
\* `(1..).generate(rng)` followed by new_unchecked
NonZero_generate(ty, bld, rng, fresh) ==
    LET g == RangeFrom_generate(ty, bld, 1, rng, fresh)
    IN  {[g.b EXCEPT !.out = o] @@ [raw |-> g.raw, rng |-> g.rng] :
            o \in new_unchecked(g.b.out)}

----------------------------------------------------------------------------
(* Engine: the test under run and the shrink search *)

Odd(n) == n % 2 = 1

\* the test predicate of the scenario: decode one u32, fail when it is odd
TestFails(endian, rng, fresh) ==
    Odd(TypeGenerator_generate(u32, endian, rng, fresh).value)

\* evaluation of one shrink candidate: a fresh Forced-mode driver over
\* exactly those bytes, the identical predicate
StillFails(endian, cand) == TestFails(endian, ForcedDriver(cand), 0)

\* length of the tail the first truncation of a round cuts off
HalfTail(seq) == (Len(seq) + 1) \div 2

\* candidate of the truncation phase
Truncated(seq, cut) == SubSeq(seq, 1, Len(seq) - cut)

\* candidate of the simplification phase
Zeroed(seq, i) == [seq EXCEPT ![i] = 0]

IdleEngine(mode, entropy) ==
    [mode |-> mode, entropy |-> entropy, captured |-> <<>>, best |-> <<>>,
     phase |-> "none", cut |-> 0, idx |-> 0, progress |-> FALSE,
     first |-> 0, decoded |-> 0]

----------------------------------------------------------------------------
(* Inputs *)

Samples(ty) ==
    {v \in (MIN(ty)..(MIN(ty) + Edge)) \cup ((-Edge)..Edge)
           \cup ((MAX(ty) - Edge)..MAX(ty)) \cup {10, 20, 250} : InType(ty, v)}

Bounds(S) ==
    {Unbounded} \cup {Included(v) : v \in S} \cup {Excluded(v) : v \in S}

ByteSamples == {0, 1, 255}
EntropySamples == {0, 1, 3}
Fresh == {0, 7}
Held == {0, 42}

SeqsUpTo(S, n) == UNION {[1..k -> S] : k \in 0..n}

Builds == [overflow_checks : BOOLEAN, endian : {"little", "big"}]

NoArgs == [ty |-> u8, self |-> 0, start |-> Unbounded, end |-> Unbounded]
NoRet == [op |-> "none"]
NoEngine == IdleEngine("Forced", <<>>)

InitBounded ==
    /\ pc = "bounded"
    /\ \E ty \in IntTypes :
         \E x \in Samples(ty) : \E s, e \in Bounds(Samples(ty)) :
            args = [ty |-> ty, self |-> x, start |-> s, end |-> e]
    /\ rng1 = DirectDriver /\ rng2 = DirectDriver
    /\ engine = NoEngine

InitNonZeroBounded ==
    /\ pc = "nz_bounded"
    /\ \E ty \in IntTypes :
         \E x \in Samples(ty) \ {0} : \E s, e \in Bounds(Samples(ty) \ {0}) :
            args = [ty |-> ty, self |-> x, start |-> s, end |-> e]
    /\ rng1 = DirectDriver /\ rng2 = DirectDriver
    /\ engine = NoEngine

InitNonZeroGenerate ==
    /\ pc = "nz_generate"
    /\ \E ty \in IntTypes : args = [NoArgs EXCEPT !.ty = ty]
    /\ rng1 \in {ForcedDriver(b) : b \in SeqsUpTo(ByteSamples, MaxLen)}
                  \cup {DirectDriver}
    /\ rng2 = rng1
    /\ engine = NoEngine

InitReplay ==
    /\ pc = "replay"
    /\ args = NoArgs
    /\ rng1 \in {ForcedDriver(b) : b \in SeqsUpTo(ByteSamples, MaxLen)}
                  \cup {DirectDriver}
    /\ rng2 = rng1
    /\ engine = NoEngine

InitEngine ==
    /\ pc = "Idle"
    /\ args = NoArgs
    /\ rng1 = DirectDriver /\ rng2 = DirectDriver
    /\ \E m \in {"Forced", "Direct"} :
         \E b \in SeqsUpTo(EntropySamples, MaxEntropy) :
            engine = IdleEngine(m, b)

Init ==
    /\ build \in Builds
    /\ ret = NoRet
    /\ trace1 = <<>> /\ trace2 = <<>>
    /\ \/ InitBounded
       \/ InitNonZeroBounded
       \/ InitNonZeroGenerate
       \/ InitReplay
       \/ InitEngine

----------------------------------------------------------------------------
(* Operations *)

\* x.bounded(start, end) on a primitive integer
Bounded ==
    /\ pc = "bounded"
    /\ ret' = bounded(args.ty, build.overflow_checks, args.self,
                      args.start, args.end) @@ [op |-> "bounded"]
    /\ pc' = "done"
    /\ UNCHANGED <<build, args, rng1, rng2, trace1, trace2, engine>>

\* x.bounded(start, end) on a NonZero integer
NonZeroBounded ==
    /\ pc = "nz_bounded"
    /\ ret' = NonZero_bounded(args.ty, build.overflow_checks, args.self,
                              args.start, args.end) @@ [op |-> "nz_bounded"]
    /\ pc' = "done"
    /\ UNCHANGED <<build, args, rng1, rng2, trace1, trace2, engine>>

\* <NonZero as TypeGenerator>::generate(rng)
NonZeroGenerate ==
    /\ pc = "nz_generate"
    /\ \E fresh \in Fresh :
         \E r \in NonZero_generate(args.ty, build, rng1, fresh) :
            /\ ret' = [op |-> "nz_generate", raw |-> r.raw, out |-> r.out,
                       lower |-> r.lower, upper |-> r.upper]
            /\ rng1' = r.rng
    /\ pc' = "done"
    /\ UNCHANGED <<build, args, rng2, trace1, trace2, engine>>

\* <$ty as TypeGenerator>::generate(rng), issued to both runs
GenerateCall ==
    /\ pc = "replay"
    /\ Len(trace1) < MaxCalls
    /\ \E ty \in IntTypes : \E f1, f2 \in Fresh :
         LET g1 == TypeGenerator_generate(ty, build.endian, rng1, f1)
             g2 == TypeGenerator_generate(ty, build.endian, rng2, f2)
         IN  /\ rng1' = g1.rng
             /\ rng2' = g2.rng
             /\ trace1' = Append(trace1, g1.value)
             /\ trace2' = Append(trace2, g2.value)
             /\ ret' = [op |-> "type_generate", ty |-> ty,
                        before1 |-> rng1.pos, before2 |-> rng2.pos]
    /\ UNCHANGED <<build, pc, args, engine>>

\* ValueGenerator::generate(&held, rng), issued to both runs
FixedCall ==
    /\ pc = "replay"
    /\ Len(trace1) < MaxCalls
    /\ \E held \in Held :
         LET g1 == ValueGenerator_generate(held, rng1)
             g2 == ValueGenerator_generate(held, rng2)
         IN  /\ rng1' = g1.rng
             /\ rng2' = g2.rng
             /\ trace1' = Append(trace1, g1.value)
             /\ trace2' = Append(trace2, g2.value)
             /\ ret' = [op |-> "value_generate", held |-> held,
                        before1 |-> rng1.pos, before2 |-> rng2.pos]
    /\ UNCHANGED <<build, pc, args, engine>>

\* Engine::set_driver_mode
SetDriverMode ==
    /\ pc = "Idle"
    /\ \E m \in {"Forced", "Direct"} :
         /\ m # engine.mode
         /\ engine' = [engine EXCEPT !.mode = m]
    /\ UNCHANGED <<build, pc, args, ret, rng1, rng2, trace1, trace2>>

\* Engine::run, up to the verdict of the first execution of the test
Run ==
    /\ pc = "Idle"
    /\ \E fresh \in EntropySamples :
         LET rng == IF engine.mode = "Forced" THEN ForcedDriver(engine.entropy)
                    ELSE DirectDriver
             g == TypeGenerator_generate(u32, build.endian, rng, fresh)
             consumed == IF engine.mode = "Forced" THEN engine.entropy
                         ELSE fill_bytes(rng, 4, fresh).bytes
         IN  /\ engine' = [engine EXCEPT !.captured = consumed,
                                         !.first = g.value]
             /\ pc' = IF Odd(g.value) THEN "Failed" ELSE "Passed"
    /\ UNCHANGED <<build, args, ret, rng1, rng2, trace1, trace2>>

\* Failed -> Shrinking: the captured bytes become the current best
StartShrink ==
    /\ pc = "Failed"
    /\ pc' = "Shrinking"
    /\ engine' = [engine EXCEPT !.best = engine.captured,
                                !.phase = "truncate",
                                !.cut = HalfTail(engine.captured),
                                !.progress = FALSE]
    /\ UNCHANGED <<build, args, ret, rng1, rng2, trace1, trace2>>

\* one candidate of the truncation phase: cut the tail, keep it if the test
\* still fails, then halve the cut
TruncateStep ==
    /\ pc = "Shrinking" /\ engine.phase = "truncate" /\ engine.cut >= 1
    /\ LET cand == Truncated(engine.best, engine.cut)
           keep == StillFails(build.endian, cand)
       IN  engine' = [engine EXCEPT
                        !.best = IF keep THEN cand ELSE @,
                        !.progress = IF keep THEN TRUE ELSE @,
                        !.cut = engine.cut \div 2]
    /\ UNCHANGED <<build, pc, args, ret, rng1, rng2, trace1, trace2>>

\* truncation exhausted: go on to byte simplification
StartSimplify ==
    /\ pc = "Shrinking" /\ engine.phase = "truncate" /\ engine.cut = 0
    /\ engine' = [engine EXCEPT !.phase = "simplify", !.idx = 1]
    /\ UNCHANGED <<build, pc, args, ret, rng1, rng2, trace1, trace2>>

\* one candidate of the simplification phase: replace byte idx with 0
SimplifyStep ==
    /\ pc = "Shrinking" /\ engine.phase = "simplify"
    /\ engine.idx <= Len(engine.best)
    /\ LET cand == Zeroed(engine.best, engine.idx)
           keep == cand # engine.best /\ StillFails(build.endian, cand)
       IN  engine' = [engine EXCEPT
                        !.best = IF keep THEN cand ELSE @,
                        !.progress = IF keep THEN TRUE ELSE @,
                        !.idx = engine.idx + 1]
    /\ UNCHANGED <<build, pc, args, ret, rng1, rng2, trace1, trace2>>

\* end of a round: another round after a reduction, the report otherwise
EndRound ==
    /\ pc = "Shrinking" /\ engine.phase = "simplify"
    /\ engine.idx > Len(engine.best)
    /\ IF engine.progress
       THEN /\ engine' = [engine EXCEPT !.phase = "truncate",
                                        !.cut = HalfTail(engine.best),
                                        !.progress = FALSE]
            /\ pc' = pc
       ELSE /\ engine' = [engine EXCEPT
                 !.phase = "none",
                 !.decoded = TypeGenerator_generate(u32, build.endian,
                                 ForcedDriver(engine.best), 0).value]
            /\ pc' = "Reported"
    /\ UNCHANGED <<build, args, ret, rng1, rng2, trace1, trace2>>

Next ==
    \/ Bounded
    \/ NonZeroBounded
    \/ NonZeroGenerate
    \/ GenerateCall
    \/ FixedCall
    \/ SetDriverMode
    \/ Run
    \/ StartShrink
    \/ TruncateStep
    \/ StartSimplify
    \/ SimplifyStep
    \/ EndRound

Spec == Init /\ [][Next]_vars

----------------------------------------------------------------------------
(* Properties *)

Min(a, b) == IF a < b THEN a ELSE b
Max(a, b) == IF a < b THEN b ELSE a

\* the start and end a pair of bounds stands for, as the documentation of
\* the algorithm states them
ExpectedStart(ty, b) ==
    CASE b.kind = "Included" -> b.value
      [] b.kind = "Excluded" -> IF b.value = MAX(ty) THEN MAX(ty) ELSE b.value + 1
      [] OTHER -> MIN(ty)

ExpectedEnd(ty, b) ==
    CASE b.kind = "Included" -> b.value
      [] b.kind = "Excluded" -> IF b.value = MIN(ty) THEN MIN(ty) ELSE b.value - 1
      [] OTHER -> MAX(ty)

\* C1: bounded on a primitive integer returns a value v with
\* lower <= v <= upper, for every raw value and every pair of bounds
C1_BoundedInRange ==
    ret.op = "bounded" =>
        /\ ret.out.kind = "value"
        /\ ret.lower <= ret.out.v
        /\ ret.out.v <= ret.upper

\* C2: NonZero bounded, given bounds whose resolved interval holds a
\* non-zero value, returns a non-zero value inside the interval and does
\* not abort
C2_NonZeroSatisfiable ==
    (ret.op = "nz_bounded" /\ ~(ret.lower = 0 /\ ret.upper = 0)) =>
        /\ ret.out.kind = "value"
        /\ ret.out.v # 0
        /\ ret.lower <= ret.out.v
        /\ ret.out.v <= ret.upper

\* C3: default generation of a NonZero integer yields an underlying value
\* in [1, MAX], never 0, and NonZeroU8 from a raw 0 yields 1
C3_NonZeroGenerateRange ==
    ret.op = "nz_generate" =>
        /\ ret.out.kind = "value"
        /\ 1 <= ret.out.v
        /\ ret.out.v <= MAX(args.ty)
        /\ (args.ty = u8 /\ ret.raw = 0) => ret.out.v = 1

\* C4: NonZero bounded never returns zero, folds at most four raw values
\* (the original, then each incremented by one with wrapping), and ends
\* without a value only by the "could not satisfy bounded value" abort
\* after four attempts
C4_NonZeroRetryContract ==
    ret.op = "nz_bounded" =>
        /\ ret.out.kind = "value" => ret.out.v # 0
        /\ Len(ret.tried) <= NonZeroAttempts
        /\ \A k \in 1..Len(ret.tried) :
              ret.tried[k] = Wrap(args.ty, args.self + (k - 1))
        /\ ret.out.kind = "panic" =>
              /\ ret.out.msg = Diagnostic(args.ty)
              /\ Len(ret.tried) = NonZeroAttempts

C6_ShrinksToOne ==
    (pc = "Reported" /\ build.endian = "little"
        /\ engine.captured = <<3, 0, 0, 0>>) =>
        /\ engine.first = 3
        /\ engine.best = <<1, 0, 0, 0>>
        /\ engine.decoded = 1

\* C7: the interval bounded works on is the resolved and normalized one:
\* lower is the smaller and upper the larger of the resolved start and end,
\* so lower <= upper and a reversed pair is swapped
C7_IntervalNormalized ==
    ret.op = "bounded" =>
        LET s == ExpectedStart(args.ty, args.start)
            e == ExpectedEnd(args.ty, args.end)
        IN  /\ ret.lower = Min(s, e)
            /\ ret.upper = Max(s, e)
            /\ ret.lower <= ret.upper
            /\ InType(args.ty, ret.lower) /\ InType(args.ty, ret.upper)

\* a reversed pair whose start saturates at MAX: bounded ran and swapped it
C7_Witness ==
    /\ ret.op = "bounded"
    /\ args.start = Excluded(MAX(args.ty))
    /\ args.end.kind = "Excluded" /\ args.end.value = 1
    /\ ret.lower = 0 /\ ret.upper = MAX(args.ty)

\* C8: in bounded neither range = upper - lower nor (x % range) + lower
\* leaves the domain of the type, signed or unsigned
C8_NoOverflow ==
    ret.op = "bounded" => (~ret.sub_overflow /\ ~ret.add_overflow)

\* C9: on an unsigned type with lower < upper, bounded returns exactly
\* (x mod (upper - lower)) + lower, which lies in [lower, upper - 1];
\* 250u8 folded into 10..=20 gives 10
C9_ModulusSemantics ==
    (ret.op = "bounded" /\ ~args.ty.signed /\ ret.lower < ret.upper) =>
        /\ ret.out.kind = "value"
        /\ ret.out.v = (args.self % (ret.upper - ret.lower)) + ret.lower
        /\ ret.lower <= ret.out.v
        /\ ret.out.v <= ret.upper - 1
        /\ (args = [ty |-> u8, self |-> 250, start |-> Included(10),
                    end |-> Included(20)]) => ret.out.v = 10

\* bounded(250u8, Included(10), Included(20)) has returned 10
C9_Witness ==
    /\ ret.op = "bounded"
    /\ args = [ty |-> u8, self |-> 250, start |-> Included(10),
               end |-> Included(20)]
    /\ ret.lower = 10 /\ ret.upper = 20
    /\ ret.out = Ok(10)

\* C10: when the resolved bounds coincide, bounded completes and returns
\* that single value
C10_DegenerateInterval ==
    (ret.op = "bounded" /\ ret.lower = ret.upper) =>
        /\ ret.out.kind = "value"
        /\ ret.out.v = ret.lower

====
